---- MODULE Spec2Model ----
(***************************************************************************)
(* Liminal VM (src/src/vm.py) as a state machine.                          *)
(*                                                                         *)
(* Python strings are sequences of one-character strings, so that          *)
(* str.strip, str.split, str.startswith, int() and str() are computed and  *)
(* not assumed.  A Python value carries its run-time type in the field py. *)
(* VirtualMachine.execute is recursive (execute_operation -> op_saturate   *)
(* -> execute_operation); the active op_saturate invocations are the       *)
(* sequence frames, innermost first.  One step of the model is one pass    *)
(* through execute_operation, or one loop boundary of execute /            *)
(* execute_phase / op_saturate.  An exception unwinds inside the step that *)
(* raises it, since unwinding changes no field of the machine.             *)
(***************************************************************************)
EXTENDS Integers, Sequences, FiniteSets, TLC

VARIABLES
    config,              \* VirtualMachine.config (VMConfig)
    program,             \* the Program passed to execute
    stack,               \* VirtualMachine.stack
    bindings,            \* VirtualMachine.bindings
    phase_counter,       \* VirtualMachine.phase_counter
    operation_counter,   \* VirtualMachine.operation_counter
    halted,              \* VirtualMachine.halted
    trace,               \* VirtualMachine.trace
    current_phase_name,  \* VirtualMachine.current_phase_name
    pc,                  \* "idle" | "parsed" | "parse_error" | "running" | "returned" | "escaped"
    phase_idx,           \* phases taken so far by the for loop of execute
    op_idx,              \* next operation of the for loop of execute_phase; 0 outside a phase
    frames,              \* active op_saturate invocations, innermost first
    raised,              \* the exception raised last, and the SATURATE depth it was raised at
    result,              \* the ExecutionResult returned by execute
    source,              \* Tokenizer.source: the text parse_program was given, <<>> if none
    tokens,              \* Parser.tokens: the token list parse_program was given
    instance,            \* the VirtualMachine instances constructed so far
    runs,                \* the calls of execute on the current instance
    reference            \* history: the executions that ended before the current one

vars == <<config, program, stack, bindings, phase_counter, operation_counter,
          halted, trace, current_phase_name, pc, phase_idx, op_idx, frames,
          raised, result, source, tokens, instance, runs, reference>>

-----------------------------------------------------------------------------
(* Python strings *)

Whitespace == {" ", "\t", "\n", "\r", "\f"}

DigitChars == <<"0", "1", "2", "3", "4", "5", "6", "7", "8", "9">>

IsDigit(c) == \E i \in 1..10 : DigitChars[i] = c

DigitValue(c) == (CHOOSE i \in 1..10 : DigitChars[i] = c) - 1

\* the positions of s that hold no whitespace
Inked(s) == {i \in 1..Len(s) : s[i] \notin Whitespace}

\* the element of a one-element set
The(S) == CHOOSE x \in S : TRUE

Least(S) == CHOOSE x \in S : \A y \in S : x <= y

Greatest(S) == CHOOSE x \in S : \A y \in S : x >= y

\* str.strip()
Strip(s) ==
    IF Inked(s) = {} THEN <<>> ELSE SubSeq(s, Least(Inked(s)), Greatest(Inked(s)))

\* the positions where a maximal run of non-whitespace begins, and where it ends
WordStarts(s) == {i \in Inked(s) : i = 1 \/ s[i - 1] \in Whitespace}

WordEnds(s) == {i \in Inked(s) : i = Len(s) \/ s[i + 1] \in Whitespace}

\* str.split() with no separator: the maximal runs of non-whitespace, in order
Split(s) ==
    [k \in 1..Cardinality(WordStarts(s)) |->
        LET from == CHOOSE i \in WordStarts(s) :
                        Cardinality({j \in WordStarts(s) : j < i}) = k - 1
            to   == Least({e \in WordEnds(s) : e >= from})
        IN  SubSeq(s, from, to)]

\* str.startswith(prefix)
StartsWith(s, prefix) ==
    Len(s) >= Len(prefix) /\ SubSeq(s, 1, Len(prefix)) = prefix

\* the digits of int(): decimal digits, single underscores only between digits
DigitsOk(s) ==
    /\ s # <<>>
    /\ \A i \in 1..Len(s) :
          \/ IsDigit(s[i])
          \/ /\ s[i] = "_"
             /\ i > 1 /\ i < Len(s)
             /\ IsDigit(s[i - 1]) /\ IsDigit(s[i + 1])

\* the value of the first n digits of ds
RECURSIVE DigitsValue(_, _)
DigitsValue(ds, n) ==
    IF n = 0 THEN 0 ELSE 10 * DigitsValue(ds, n - 1) + DigitValue(ds[n])

\* int(word): [ok |-> FALSE] stands for ValueError
ParseInt(word) ==
    The({LET signed == w # <<>> /\ Head(w) \in {"+", "-"}
             body   == IF signed THEN Tail(w) ELSE w
             digits == SelectSeq(body, IsDigit)
         IN  IF DigitsOk(body)
             THEN [ok |-> TRUE,
                   value |-> IF signed /\ Head(w) = "-"
                             THEN 0 - DigitsValue(digits, Len(digits))
                             ELSE DigitsValue(digits, Len(digits))]
             ELSE [ok |-> FALSE, value |-> 0]
         : w \in {Strip(word)}})

RECURSIVE NatToStr(_)
NatToStr(n) ==
    IF n < 10 THEN <<DigitChars[n + 1]>>
    ELSE NatToStr(n \div 10) \o <<DigitChars[(n % 10) + 1]>>

\* Python values: a str or an int
PyStr(s) == [py |-> "str", s |-> s, n |-> 0]
PyInt(n) == [py |-> "int", s |-> <<>>, n |-> n]

\* str(value)
Str(v) ==
    IF v.py = "str" THEN v.s
    ELSE IF v.n < 0 THEN <<"-">> \o NatToStr(0 - v.n) ELSE NatToStr(v.n)

-----------------------------------------------------------------------------
(* Program tree (src/src/parser.py) *)

\* Argument: type is LITERAL, REFERENCE or BLOCK; a BLOCK's value is the list block
Literal(v)   == [type |-> "LITERAL",   value |-> v,          block |-> <<>>]
Reference(s) == [type |-> "REFERENCE", value |-> PyStr(s),   block |-> <<>>]
Block(ops)   == [type |-> "BLOCK",     value |-> PyStr(<<>>), block |-> ops]

Operation(operator, arguments) == [operator |-> operator, arguments |-> arguments]

Phase(name, operations) == [name |-> name, operations |-> operations]

-----------------------------------------------------------------------------
(* Parser (src/src/parser.py) *)

\* a token of Tokenizer.tokens, without its line and column
Token(type, value) == [type |-> type, value |-> value]

\* Tokenizer.TOKEN_PATTERNS: the character classes of the rules
TOKEN_PATTERNS ==
    [upper      |-> {"A", "B", "C", "D", "E", "F", "G", "H", "I", "J", "K", "L", "M",
                    "N", "O", "P", "Q", "R", "S", "T", "U", "V", "W", "X", "Y", "Z",
                    "_"},
     lower      |-> {"a", "b", "c", "d", "e", "f", "g", "h", "i", "j", "k", "l", "m",
                    "n", "o", "p", "q", "r", "s", "t", "u", "v", "w", "x", "y", "z",
                    "_"},
     digit      |-> {"0", "1", "2", "3", "4", "5", "6", "7", "8", "9"},
     symbol     |-> {"<", ">", "=", "!"},
     whitespace |-> {" ", "\t", "\n", "\r"}]

\* the first rule of TOKEN_PATTERNS that matches at pos and the last position
\* of its match; "None" where no rule matches
Match(src, pos) ==
    LET c        == src[pos]
        Run(cls) == Greatest({e \in pos..Len(src) : \A i \in (pos + 1)..e : src[i] \in cls})
        quotes   == {j \in (pos + 1)..Len(src) : src[j] = "\""}
        newlines == {j \in pos..Len(src) : src[j] = "\n"}
    IN  IF c = "#"
        THEN [type |-> "COMMENT",
              stop |-> IF newlines = {} THEN Len(src) ELSE Least(newlines) - 1]
        ELSE IF c = "{" THEN [type |-> "LBRACE", stop |-> pos]
        ELSE IF c = "}" THEN [type |-> "RBRACE", stop |-> pos]
        ELSE IF c = "\"" /\ quotes # {} THEN [type |-> "STRING", stop |-> Least(quotes)]
        ELSE IF c \in TOKEN_PATTERNS.digit
        THEN [type |-> "NUMBER", stop |-> Run(TOKEN_PATTERNS.digit)]
        ELSE IF c \in TOKEN_PATTERNS.upper
        THEN [type |-> "KEYWORD",
              stop |-> Run(TOKEN_PATTERNS.upper \cup TOKEN_PATTERNS.digit)]
        ELSE IF c \in TOKEN_PATTERNS.lower
        THEN [type |-> "IDENT",
              stop |-> Run(TOKEN_PATTERNS.lower \cup TOKEN_PATTERNS.digit)]
        ELSE IF c \in TOKEN_PATTERNS.symbol
        THEN [type |-> "SYMBOL", stop |-> Run(TOKEN_PATTERNS.symbol)]
        ELSE IF c \in TOKEN_PATTERNS.whitespace
        THEN [type |-> "WHITESPACE", stop |-> Run(TOKEN_PATTERNS.whitespace)]
        ELSE [type |-> "None", stop |-> pos]

\* Tokenizer.tokenize: regex.finditer from pos on. finditer passes over a
\* character no rule matches; skipped collects the positions passed over
RECURSIVE Tokenize(_, _, _, _)
Tokenize(src, pos, toks, skipped) ==
    IF pos > Len(src) THEN [tokens |-> toks, skipped |-> skipped]
    ELSE The({IF m.type = "None" THEN Tokenize(src, pos + 1, toks, skipped \cup {pos})
              ELSE IF m.type \in {"WHITESPACE", "COMMENT"}
              THEN Tokenize(src, m.stop + 1, toks, skipped)
              ELSE IF m.type = "STRING"
              THEN Tokenize(src, m.stop + 1,
                            Append(toks, Token("STRING", SubSeq(src, pos + 1, m.stop - 1))),
                            skipped)
              ELSE Tokenize(src, m.stop + 1,
                            Append(toks, Token(m.type, SubSeq(src, pos, m.stop))), skipped)
              : m \in {Match(src, pos)}})

\* OPERATOR_ARITY, keyed by the spelling of the keyword
OPERATOR_ARITY ==
    {[word |-> <<"P", "U", "S", "H">>, operator |-> "PUSH", arity |-> 1],
     [word |-> <<"I", "N", "V", "E", "R", "T">>, operator |-> "INVERT", arity |-> 0],
     [word |-> <<"B", "I", "N", "D">>, operator |-> "BIND", arity |-> 2],
     [word |-> <<"R", "E", "L", "E", "A", "S", "E">>, operator |-> "RELEASE", arity |-> 1],
     [word |-> <<"G", "A", "T", "E">>, operator |-> "GATE", arity |-> 1],
     [word |-> <<"S", "A", "T", "U", "R", "A", "T", "E">>, operator |-> "SATURATE", arity |-> 1],
     [word |-> <<"W", "I", "T", "N", "E", "S", "S">>, operator |-> "WITNESS", arity |-> 0],
     [word |-> <<"H", "A", "L", "T">>, operator |-> "HALT", arity |-> 0]}

\* the outcome of a parsing method: the value built and the position reached
\* (Parser.pos, 1-based), or ParseError
Parsed(value, pos) == [ok |-> TRUE, value |-> value, pos |-> pos]

ParseError == [ok |-> FALSE, value |-> <<>>, pos |-> 0]

\* Parser.peek: the type of the current token, "None" past the end
Peek(toks, pos) == IF pos <= Len(toks) THEN toks[pos].type ELSE "None"

\* Parser.consume(expected_type)
Consume(toks, pos, expected_type) ==
    IF pos > Len(toks) THEN ParseError
    ELSE IF toks[pos].type # expected_type THEN ParseError
    ELSE Parsed(toks[pos], pos + 1)

\* Parser.parse_argument
ParseArgument(toks, pos) ==
    IF pos > Len(toks) THEN ParseError
    ELSE LET token == toks[pos] IN
         IF token.type = "STRING" THEN Parsed(Literal(PyStr(token.value)), pos + 1)
         ELSE IF token.type = "NUMBER"
         THEN Parsed(Literal(PyInt(ParseInt(token.value).value)), pos + 1)
         ELSE IF token.type = "IDENT" THEN Parsed(Reference(token.value), pos + 1)
         ELSE IF token.type = "SYMBOL"
         THEN IF Peek(toks, pos + 1) \in {"NUMBER", "IDENT"}
              THEN Parsed(Reference(token.value \o <<" ">> \o toks[pos + 1].value), pos + 2)
              ELSE Parsed(Reference(token.value), pos + 1)
         ELSE ParseError

\* parse_operation: for _ in range(expected_arity): parse_argument
RECURSIVE ParseArguments(_, _, _, _)
ParseArguments(toks, pos, n, acc) ==
    IF n = 0 THEN Parsed(acc, pos)
    ELSE The({IF ~a.ok THEN ParseError
              ELSE ParseArguments(toks, a.pos, n - 1, Append(acc, a.value))
              : a \in {ParseArgument(toks, pos)}})

RECURSIVE ParseOperation(_, _)
RECURSIVE ParseOperations(_, _, _)

\* while self.peek() != 'RBRACE': ... parse_operation()
ParseOperations(toks, pos, acc) ==
    IF Peek(toks, pos) = "RBRACE" THEN Parsed(acc, pos)
    ELSE IF pos > Len(toks) THEN ParseError
    ELSE The({IF ~o.ok THEN ParseError
              ELSE ParseOperations(toks, o.pos, Append(acc, o.value))
              : o \in {ParseOperation(toks, pos)}})

\* parse_operation, SATURATE: consume LBRACE, the operations of the block,
\* consume RBRACE
ParseBlock(toks, pos) ==
    The({IF ~lb.ok THEN ParseError
         ELSE The({IF ~b.ok THEN ParseError
                   ELSE The({IF ~rb.ok THEN ParseError
                             ELSE Parsed(Operation("SATURATE", <<Block(b.value)>>), rb.pos)
                             : rb \in {Consume(toks, b.pos, "RBRACE")}})
                   : b \in {ParseOperations(toks, lb.pos, <<>>)}})
         : lb \in {Consume(toks, pos, "LBRACE")}})

\* Parser.parse_operation
ParseOperation(toks, pos) ==
    The({IF ~k.ok THEN ParseError
         ELSE IF \A e \in OPERATOR_ARITY : e.word # k.value.value THEN ParseError
         ELSE The({IF e.operator = "SATURATE" THEN ParseBlock(toks, k.pos)
                   ELSE The({IF ~a.ok THEN ParseError
                             ELSE Parsed(Operation(e.operator, a.value), a.pos)
                             : a \in {ParseArguments(toks, k.pos, e.arity, <<>>)}})
                   : e \in {x \in OPERATOR_ARITY : x.word = k.value.value}})
         : k \in {Consume(toks, pos, "KEYWORD")}})

\* Parser.parse_phase
ParsePhase(toks, pos) ==
    The({IF ~name.ok THEN ParseError
         ELSE The({IF ~lb.ok THEN ParseError
                   ELSE The({IF ~ops.ok THEN ParseError
                             ELSE The({IF ~rb.ok THEN ParseError
                                       ELSE IF ops.value = <<>> THEN ParseError
                                       ELSE Parsed(Phase(name.value.value, ops.value),
                                                   rb.pos)
                                       : rb \in {Consume(toks, ops.pos, "RBRACE")}})
                             : ops \in {ParseOperations(toks, lb.pos, <<>>)}})
                   : lb \in {Consume(toks, name.pos, "LBRACE")}})
         : name \in {Consume(toks, pos, "KEYWORD")}})

\* Parser.parse_program: while self.current_token(): parse_phase()
RECURSIVE ParsePhases(_, _, _)
ParsePhases(toks, pos, acc) ==
    IF pos > Len(toks) THEN Parsed(acc, pos)
    ELSE The({IF ~ph.ok THEN ParseError
              ELSE ParsePhases(toks, ph.pos, Append(acc, ph.value))
              : ph \in {ParsePhase(toks, pos)}})

\* Parser.parse_program
ParseProgram(toks) ==
    The({IF ~phases.ok THEN ParseError
         ELSE IF phases.value = <<>> THEN ParseError
         ELSE phases
         : phases \in {ParsePhases(toks, 1, <<>>)}})

-----------------------------------------------------------------------------
(* VMConfig defaults *)

DefaultMaxOperations == 100000
DefaultMaxStackDepth == 256
DefaultMaxSaturateIterations == 1000
DefaultMaxBindings == 1024

-----------------------------------------------------------------------------
(* VirtualMachine *)

NoneName == <<>>     \* current_phase_name = None

NoException == [exc |-> "none", depth |-> 0]

NoBindings == [k \in {} |-> <<>>]

NoResult ==
    [status |-> "NONE", phases_executed |-> 0, operations_executed |-> 0,
     final_state |-> [stack |-> <<>>, bindings |-> NoBindings, depth |-> 0,
                      binding_count |-> 0],
     trace |-> <<>>]

\* len(self.bindings)
BindingCount(b) == Cardinality(DOMAIN b)

\* self.bindings[value] = key: key and value exchanged
BindingsSet_Exchanged(b, key, value) ==
    [k \in (DOMAIN b) \cup {value} |-> IF k = value THEN key ELSE b[k]]

\* self.bindings[key] = value
BindingsSet(b, key, value) ==
    [k \in (DOMAIN b) \cup {key} |-> IF k = key THEN value ELSE b[k]]

\* self.bindings.clear() in place of pop
BindingsPop_Clear(b, key) == NoBindings

\* self.bindings.pop(key, None)
BindingsPop(b, key) == [k \in (DOMAIN b) \ {key} |-> b[k]]

\* a reverse() that leaves the list as it is
Reverse_Kept(s) == s

\* list.reverse()
Reverse(s) == [i \in 1..Len(s) |-> s[Len(s) + 1 - i]]

\* the budget check with > in place of >=
OperationLimitReached_Late(counter, cfg) == counter > cfg.max_operations

\* execute_operation: if self.operation_counter >= self.config.max_operations
OperationLimitReached(counter, cfg) == counter >= cfg.max_operations

\* the depth check with > in place of >=
StackFull_Late(stk, cfg) == Len(stk) > cfg.max_stack_depth

\* op_push: if len(self.stack) >= self.config.max_stack_depth
StackFull(stk, cfg) == Len(stk) >= cfg.max_stack_depth

\* the bindings check with > in place of >=
BindingsFull_Late(b, key, cfg) == BindingCount(b) > cfg.max_bindings

\* op_bind: if len(self.bindings) >= self.config.max_bindings
BindingsFull(b, key, cfg) == BindingCount(b) >= cfg.max_bindings

\* a while loop without the iteration bound
LoopContinues_Always(iteration, cfg) == TRUE

\* op_saturate: while iteration < self.config.max_saturate_iterations
LoopContinues(iteration, cfg) == iteration < cfg.max_saturate_iterations

\* the check after the loop with > in place of >=
CycleLimitReached_Late(iteration, cfg) == iteration > cfg.max_saturate_iterations

\* op_saturate: if iteration >= self.config.max_saturate_iterations
CycleLimitReached(iteration, cfg) == iteration >= cfg.max_saturate_iterations

\* snapshot_state
SnapshotState(stk, b) == [stack |-> stk, bindings |-> b]

\* a comparison of the stacks alone that takes equal stacks for different
StatesEqual_Negated(state1, state2) ==
    state1.stack # state2.stack /\ state1.bindings = state2.bindings

\* states_equal
StatesEqual(state1, state2) ==
    state1.stack = state2.stack /\ state1.bindings = state2.bindings

\* evaluate_condition: [exc |-> "none", value |-> the boolean] or the exception raised
CondValue(b)   == [exc |-> "none", value |-> b]
CondRaise(exc) == [exc |-> exc, value |-> FALSE]

\* the branches of evaluate_condition, for the stripped condition and its words
Evaluated(condition, parts, stk, b) ==
    IF StartsWith(condition, <<"d", "e", "p", "t", "h">>)
    THEN IF Len(parts) # 3 THEN CondRaise("ConditionError")
         ELSE The({IF ~parsed.ok THEN CondRaise("ConditionError")
                   ELSE IF parts[2] = <<"<">> THEN CondValue(Len(stk) < parsed.value)
                   ELSE IF parts[2] = <<">">> THEN CondValue(Len(stk) > parsed.value)
                   ELSE IF parts[2] = <<"=", "=">> THEN CondValue(Len(stk) = parsed.value)
                   ELSE CondRaise("ConditionError")
                   : parsed \in {ParseInt(parts[3])}})
    ELSE IF StartsWith(condition, <<"b", "o", "u", "n", "d">>)
    THEN LET key == IF Len(parts) > 1 THEN parts[2] ELSE <<>>
         IN  CondValue(key \in DOMAIN b)
    ELSE IF StartsWith(condition, <<"u", "n", "b", "o", "u", "n", "d">>)
    THEN LET key == IF Len(parts) > 1 THEN parts[2] ELSE <<>>
         IN  CondValue(key \notin DOMAIN b)
    ELSE CondRaise("ConditionError")

\* evaluate_condition: condition = condition.strip(), parts = condition.split()
EvaluateCondition(cond, stk, b) ==
    IF cond.py # "str" THEN CondRaise("AttributeError")   \* int has no strip()
    ELSE The({The({Evaluated(condition, parts, stk, b) : parts \in {Split(condition)}})
              : condition \in {Strip(cond.s)}})

\* the except clauses of execute: exception -> status
StatusOf(exc) ==
    CASE exc = "HaltProgram"           -> "HALTED"
      [] exc = "StackOverflowError"    -> "ERR_STACK_OVERFLOW"
      [] exc = "BindingsOverflowError" -> "ERR_BINDINGS_OVERFLOW"
      [] exc = "CycleLimitError"       -> "TERM_CYCLE_LIMIT"
      [] exc = "OperationLimitError"   -> "TERM_OP_LIMIT"
      [] exc = "ConditionError"        -> "ERR_CONDITION"

\* the exceptions execute has an except clause for
CaughtByExecute(exc) ==
    exc \in {"HaltProgram", "StackOverflowError", "BindingsOverflowError",
             "CycleLimitError", "OperationLimitError", "ConditionError"}

\* op_saturate without its except clause
CaughtBySaturate_Nothing(exc) == FALSE

\* op_saturate with a clause that catches every control-flow signal
CaughtBySaturate_Signals(exc) == exc \in {"BreakBlock", "HaltProgram"}

\* the exceptions op_saturate has an except clause for
CaughtBySaturate(exc) == exc = "BreakBlock"

\* the ExecutionResult built at the end of execute
MakeResult(status, phases, operations, stk, b, tr, cfg) ==
    [status |-> status,
     phases_executed |-> phases,
     operations_executed |-> operations,
     final_state |-> [stack |-> stk, bindings |-> b, depth |-> Len(stk),
                      binding_count |-> BindingCount(b)],
     trace |-> IF cfg.trace_enabled THEN tr ELSE <<>>]

-----------------------------------------------------------------------------
(* Control *)

\* the list the innermost for loop iterates over, and its position
CurOps == IF frames = <<>> THEN program[phase_idx].operations
          ELSE Head(frames).operations

CurPos == IF frames = <<>> THEN op_idx ELSE Head(frames).pos

\* an operation is about to be passed to execute_operation
HasCurOp ==
    /\ pc = "running"
    /\ IF frames = <<>>
       THEN op_idx >= 1 /\ op_idx <= Len(program[phase_idx].operations) /\ ~halted
       ELSE Head(frames).pos <= Len(Head(frames).operations)

CurOp == CurOps[CurPos]

\* the for loop moves to its next operation
AdvancedOpIdx == IF frames = <<>> THEN op_idx + 1 ELSE op_idx

AdvancedFrames ==
    IF frames = <<>> THEN frames ELSE <<[Head(frames) EXCEPT !.pos = @ + 1]>> \o Tail(frames)

\* execute_operation returned normally
Continue ==
    /\ pc' = pc
    /\ op_idx' = AdvancedOpIdx
    /\ frames' = AdvancedFrames
    /\ raised' = raised
    /\ result' = result

\* an exception no op_saturate catches reaches execute: its except clause builds
\* the result, or (no clause) the exception leaves execute
Leave(exc) ==
    /\ frames' = <<>>
    /\ op_idx' = 0
    /\ IF CaughtByExecute(exc)
       THEN /\ pc' = "returned"
            /\ result' = MakeResult(StatusOf(exc), phase_counter', operation_counter',
                                    stack', bindings', trace', config)
       ELSE /\ pc' = "escaped"
            /\ result' = result

\* op_saturate after its while loop (innermost frame, iteration it): raise
\* CycleLimitError or return to the enclosing loop
ExitSaturate(it, signal) ==
    IF CycleLimitReached(it, config)
    THEN /\ raised' = [exc |-> "CycleLimitError", depth |-> Len(frames) - 1]
         /\ Leave("CycleLimitError")
    ELSE /\ raised' = signal
         /\ pc' = pc
         /\ op_idx' = op_idx
         /\ frames' = Tail(frames)
         /\ result' = result

\* an operator raises exc
Raise(exc) ==
    LET signal == [exc |-> exc, depth |-> Len(frames)] IN
    IF CaughtBySaturate(exc) /\ frames # <<>>
    THEN ExitSaturate(Head(frames).iteration, signal)
    ELSE raised' = signal /\ Leave(exc)

UnchangedByOperation ==
    UNCHANGED <<config, program, phase_counter, current_phase_name, phase_idx,
                source, tokens, instance, runs, reference>>

\* execute_operation refuses the operation: OperationLimitError
RefuseOperation ==
    /\ UNCHANGED <<operation_counter, stack, bindings, trace, halted>>
    /\ Raise("OperationLimitError")

-----------------------------------------------------------------------------
(* Actions *)

\* a reset that leaves the bindings of the previous execution in place
Reset_KeepsBindings ==
    /\ stack' = <<>>
    /\ bindings' = bindings
    /\ phase_counter' = 0
    /\ operation_counter' = 0
    /\ halted' = FALSE
    /\ trace' = <<>>
    /\ current_phase_name' = NoneName

\* reset()
Reset ==
    /\ stack' = <<>>
    /\ bindings' = NoBindings
    /\ phase_counter' = 0
    /\ operation_counter' = 0
    /\ halted' = FALSE
    /\ trace' = <<>>
    /\ current_phase_name' = NoneName

\* execute(p) is called
ExecuteCall(p) ==
    /\ pc # "running"
    /\ Reset
    /\ program' = p
    /\ pc' = "running"
    /\ phase_idx' = 0
    /\ op_idx' = 0
    /\ frames' = <<>>
    /\ raised' = NoException
    /\ result' = NoResult
    /\ runs' = runs + 1
    /\ UNCHANGED <<config, instance>>

\* a for loop that takes the last phase of the program first
BeginPhase_Last ==
    /\ pc = "running" /\ op_idx = 0
    /\ phase_idx < Len(program) /\ ~halted
    /\ phase_idx' = Len(program)
    /\ current_phase_name' = program[Len(program)].name
    /\ phase_counter' = phase_counter + 1
    /\ op_idx' = 1
    /\ UNCHANGED <<config, program, stack, bindings, operation_counter, halted,
                   trace, pc, frames, raised, result, source, tokens, instance, runs,
                   reference>>

\* execute: the for loop takes the next phase and calls execute_phase
BeginPhase ==
    /\ pc = "running" /\ op_idx = 0
    /\ phase_idx < Len(program) /\ ~halted
    /\ phase_idx' = phase_idx + 1
    /\ current_phase_name' = program[phase_idx + 1].name
    /\ phase_counter' = phase_counter + 1
    /\ op_idx' = 1
    /\ UNCHANGED <<config, program, stack, bindings, operation_counter, halted,
                   trace, pc, frames, raised, result, source, tokens, instance, runs,
                   reference>>

\* execute_phase: the for loop is exhausted or halted is set
EndPhase ==
    /\ pc = "running" /\ frames = <<>> /\ op_idx >= 1
    /\ op_idx > Len(program[phase_idx].operations) \/ halted
    /\ op_idx' = 0
    /\ UNCHANGED <<config, program, stack, bindings, phase_counter, operation_counter,
                   halted, trace, current_phase_name, pc, phase_idx, frames, raised,
                   result, source, tokens, instance, runs, reference>>

\* execute: the for loop over the phases ends normally; the result is returned
ExecuteReturn ==
    /\ pc = "running" /\ op_idx = 0
    /\ phase_idx >= Len(program) \/ halted
    /\ pc' = "returned"
    /\ result' = MakeResult(IF halted THEN "HALTED" ELSE "COMPLETE", phase_counter,
                            operation_counter, stack, bindings, trace, config)
    /\ UNCHANGED <<config, program, stack, bindings, phase_counter, operation_counter,
                   halted, trace, current_phase_name, phase_idx, op_idx, frames, raised,
                   source, tokens, instance, runs, reference>>

\* a PUSH that makes room on a full stack by dropping its oldest element
OpPush_DropsOldest ==
    /\ HasCurOp /\ CurOp.operator = "PUSH"
    /\ UnchangedByOperation
    /\ IF OperationLimitReached(operation_counter, config) THEN RefuseOperation
       ELSE /\ operation_counter' = operation_counter + 1
            /\ UNCHANGED <<bindings, trace, halted>>
            /\ IF StackFull(stack, config) /\ stack = <<>>
               THEN stack' = stack /\ Raise("StackOverflowError")
               ELSE IF StackFull(stack, config)
               THEN stack' = Append(Tail(stack), Str(CurOp.arguments[1].value)) /\ Continue
               ELSE stack' = Append(stack, Str(CurOp.arguments[1].value)) /\ Continue

\* execute_operation, PUSH: op_push
OpPush ==
    /\ HasCurOp /\ CurOp.operator = "PUSH"
    /\ UnchangedByOperation
    /\ IF OperationLimitReached(operation_counter, config) THEN RefuseOperation
       ELSE /\ operation_counter' = operation_counter + 1
            /\ UNCHANGED <<bindings, trace, halted>>
            /\ IF StackFull(stack, config)
               THEN stack' = stack /\ Raise("StackOverflowError")
               ELSE stack' = Append(stack, Str(CurOp.arguments[1].value)) /\ Continue

\* an INVERT that leaves the stack in either order
OpInvert_EitherOrder ==
    /\ HasCurOp /\ CurOp.operator = "INVERT"
    /\ UnchangedByOperation
    /\ IF OperationLimitReached(operation_counter, config) THEN RefuseOperation
       ELSE /\ operation_counter' = operation_counter + 1
            /\ UNCHANGED <<bindings, trace, halted>>
            /\ stack' \in {stack, Reverse(stack)}
            /\ Continue

\* execute_operation, INVERT: op_invert
OpInvert ==
    /\ HasCurOp /\ CurOp.operator = "INVERT"
    /\ UnchangedByOperation
    /\ IF OperationLimitReached(operation_counter, config) THEN RefuseOperation
       ELSE /\ operation_counter' = operation_counter + 1
            /\ UNCHANGED <<bindings, trace, halted>>
            /\ stack' = Reverse(stack)
            /\ Continue

\* execute_operation, BIND: op_bind
OpBind ==
    /\ HasCurOp /\ CurOp.operator = "BIND"
    /\ UnchangedByOperation
    /\ IF OperationLimitReached(operation_counter, config) THEN RefuseOperation
       ELSE /\ operation_counter' = operation_counter + 1
            /\ UNCHANGED <<stack, trace, halted>>
            /\ LET key   == Str(CurOp.arguments[1].value)
                   value == Str(CurOp.arguments[2].value)
               IN  IF BindingsFull(bindings, key, config)
                   THEN bindings' = bindings /\ Raise("BindingsOverflowError")
                   ELSE bindings' = BindingsSet(bindings, key, value) /\ Continue

\* execute_operation, RELEASE: op_release
OpRelease ==
    /\ HasCurOp /\ CurOp.operator = "RELEASE"
    /\ UnchangedByOperation
    /\ IF OperationLimitReached(operation_counter, config) THEN RefuseOperation
       ELSE /\ operation_counter' = operation_counter + 1
            /\ UNCHANGED <<stack, trace, halted>>
            /\ bindings' = BindingsPop(bindings, Str(CurOp.arguments[1].value))
            /\ Continue

\* a GATE that is counted only when its condition holds
OpGate_CountsLate ==
    /\ HasCurOp /\ CurOp.operator = "GATE"
    /\ UnchangedByOperation
    /\ IF OperationLimitReached(operation_counter, config) THEN RefuseOperation
       ELSE /\ UNCHANGED <<stack, bindings, trace, halted>>
            /\ \E c \in {EvaluateCondition(CurOp.arguments[1].value, stack, bindings)} :
                   IF c.exc # "none"
                   THEN operation_counter' = operation_counter /\ Raise(c.exc)
                   ELSE IF ~c.value
                   THEN operation_counter' = operation_counter /\ Raise("BreakBlock")
                   ELSE operation_counter' = operation_counter + 1 /\ Continue

\* execute_operation, GATE: op_gate
OpGate ==
    /\ HasCurOp /\ CurOp.operator = "GATE"
    /\ UnchangedByOperation
    /\ IF OperationLimitReached(operation_counter, config) THEN RefuseOperation
       ELSE /\ operation_counter' = operation_counter + 1
            /\ UNCHANGED <<stack, bindings, trace, halted>>
            /\ \E c \in {EvaluateCondition(CurOp.arguments[1].value, stack, bindings)} :
                   IF c.exc # "none" THEN Raise(c.exc)
                   ELSE IF ~c.value THEN Raise("BreakBlock")
                   ELSE Continue

\* execute_operation, SATURATE: op_saturate up to the first execution of its block
OpSaturate ==
    /\ HasCurOp /\ CurOp.operator = "SATURATE"
    /\ UnchangedByOperation
    /\ IF OperationLimitReached(operation_counter, config) THEN RefuseOperation
       ELSE /\ operation_counter' = operation_counter + 1
            /\ UNCHANGED <<stack, bindings, trace, halted>>
            /\ IF LoopContinues(0, config)
               THEN /\ frames' = <<[operations |-> CurOp.arguments[1].block,
                                    pos |-> 1,
                                    iteration |-> 0,
                                    state_before |-> SnapshotState(stack, bindings)]>>
                                 \o AdvancedFrames
                    /\ op_idx' = AdvancedOpIdx
                    /\ UNCHANGED <<pc, raised, result>>
               ELSE IF CycleLimitReached(0, config)
                    THEN /\ raised' = [exc |-> "CycleLimitError", depth |-> Len(frames)]
                         /\ Leave("CycleLimitError")
                    ELSE Continue

\* op_saturate with continue in place of break at the fixed point: the block is
\* executed again and nothing is counted
SaturateBlockEnd_Continue ==
    /\ pc = "running" /\ frames # <<>>
    /\ Head(frames).pos > Len(Head(frames).operations)
    /\ UnchangedByOperation
    /\ UNCHANGED <<operation_counter, stack, bindings, trace, halted>>
    /\ LET f           == Head(frames)
           state_after == SnapshotState(stack, bindings)
       IN  IF StatesEqual(f.state_before, state_after)
           THEN /\ frames' = <<[f EXCEPT !.pos = 1]>> \o Tail(frames)
                /\ UNCHANGED <<pc, op_idx, raised, result>>
           ELSE IF LoopContinues(f.iteration + 1, config)
                THEN /\ frames' = <<[f EXCEPT !.pos = 1,
                                              !.iteration = f.iteration + 1,
                                              !.state_before = SnapshotState(stack, bindings)]>>
                                  \o Tail(frames)
                     /\ UNCHANGED <<pc, op_idx, raised, result>>
                ELSE ExitSaturate(f.iteration + 1, raised)

\* op_saturate: the block has been executed; compare, count, loop or leave
SaturateBlockEnd ==
    /\ pc = "running" /\ frames # <<>>
    /\ Head(frames).pos > Len(Head(frames).operations)
    /\ UnchangedByOperation
    /\ UNCHANGED <<operation_counter, stack, bindings, trace, halted>>
    /\ LET f           == Head(frames)
           state_after == SnapshotState(stack, bindings)
       IN  IF StatesEqual(f.state_before, state_after)
           THEN ExitSaturate(f.iteration, raised)
           ELSE IF LoopContinues(f.iteration + 1, config)
                THEN /\ frames' = <<[f EXCEPT !.pos = 1,
                                              !.iteration = f.iteration + 1,
                                              !.state_before = SnapshotState(stack, bindings)]>>
                                  \o Tail(frames)
                     /\ UNCHANGED <<pc, op_idx, raised, result>>
                ELSE ExitSaturate(f.iteration + 1, raised)

\* a WITNESS that is skipped, uncounted, when tracing is disabled
OpWitness_Uncounted ==
    /\ HasCurOp /\ CurOp.operator = "WITNESS"
    /\ UnchangedByOperation
    /\ IF ~config.trace_enabled
       THEN UNCHANGED <<stack, bindings, halted, trace, operation_counter>> /\ Continue
       ELSE IF OperationLimitReached(operation_counter, config) THEN RefuseOperation
       ELSE /\ operation_counter' = operation_counter + 1
            /\ UNCHANGED <<stack, bindings, halted>>
            /\ trace' = Append(trace, [phase |-> current_phase_name,
                                       operation |-> operation_counter + 1,
                                       stack |-> stack,
                                       bindings |-> bindings])
            /\ Continue

\* a WITNESS that keeps only the latest record
OpWitness_Replaces ==
    /\ HasCurOp /\ CurOp.operator = "WITNESS"
    /\ UnchangedByOperation
    /\ IF OperationLimitReached(operation_counter, config) THEN RefuseOperation
       ELSE /\ operation_counter' = operation_counter + 1
            /\ UNCHANGED <<stack, bindings, halted>>
            /\ trace' = IF config.trace_enabled
                        THEN <<[phase |-> current_phase_name,
                                operation |-> operation_counter + 1,
                                stack |-> stack,
                                bindings |-> bindings]>>
                        ELSE trace
            /\ Continue

\* execute_operation, WITNESS: op_witness
OpWitness ==
    /\ HasCurOp /\ CurOp.operator = "WITNESS"
    /\ UnchangedByOperation
    /\ IF OperationLimitReached(operation_counter, config) THEN RefuseOperation
       ELSE /\ operation_counter' = operation_counter + 1
            /\ UNCHANGED <<stack, bindings, halted>>
            /\ trace' = IF config.trace_enabled
                        THEN Append(trace, [phase |-> current_phase_name,
                                            operation |-> operation_counter + 1,
                                            stack |-> stack,
                                            bindings |-> bindings])
                        ELSE trace
            /\ Continue

\* execute_operation, HALT: op_halt
OpHalt ==
    /\ HasCurOp /\ CurOp.operator = "HALT"
    /\ UnchangedByOperation
    /\ IF OperationLimitReached(operation_counter, config) THEN RefuseOperation
       ELSE /\ operation_counter' = operation_counter + 1
            /\ UNCHANGED <<stack, bindings, trace>>
            /\ halted' = TRUE
            /\ Raise("HaltProgram")

-----------------------------------------------------------------------------
(* Inputs: configurations and parsed programs *)

\* the largest small budgets; each budget is also tried at its VMConfig default
TightOperations == 2
TightStackDepth == 1
TightBindings == 1
MaxIterations == 2

\* the calls of execute on one machine, and the machines constructed
MaxRuns == 3
MaxInstances == 2

Configs ==
    [max_operations          : (0..TightOperations) \cup {DefaultMaxOperations},
     max_stack_depth         : (0..TightStackDepth) \cup {DefaultMaxStackDepth},
     max_saturate_iterations : 0..MaxIterations,
     max_bindings            : (0..TightBindings) \cup {DefaultMaxBindings},
     trace_enabled           : BOOLEAN]

StrLit(s) == Literal(PyStr(s))

PushA        == Operation("PUSH", <<StrLit(<<"a">>)>>)
Push7        == Operation("PUSH", <<Literal(PyInt(7))>>)
Invert       == Operation("INVERT", <<>>)
BindKV       == Operation("BIND", <<StrLit(<<"k">>), StrLit(<<"v">>)>>)
BindKW       == Operation("BIND", <<StrLit(<<"k">>), StrLit(<<"w">>)>>)
BindJV       == Operation("BIND", <<Reference(<<"j">>), StrLit(<<"v">>)>>)
ReleaseK     == Operation("RELEASE", <<StrLit(<<"k">>)>>)
GateDepth    == Operation("GATE", <<StrLit(<<"d", "e", "p", "t", "h", " ", "<", " ", "2">>)>>)
GateUnboundK == Operation("GATE", <<StrLit(<<"u", "n", "b", "o", "u", "n", "d", " ", "k">>)>>)
GateBoundK   == Operation("GATE", <<StrLit(<<"b", "o", "u", "n", "d", " ", "k">>)>>)
GateSymbol   == Operation("GATE", <<Reference(<<"<", " ", "2">>)>>)
GateNumber   == Operation("GATE", <<Literal(PyInt(2))>>)
Witness      == Operation("WITNESS", <<>>)
Halt         == Operation("HALT", <<>>)
Saturate(ops) == Operation("SATURATE", <<Block(ops)>>)

LeafOps == {PushA, Push7, Invert, BindKV, BindKW, BindJV, ReleaseK, GateDepth,
            GateUnboundK, Witness, Halt}

NameT == <<"T">>
NameU == <<"U">>

NameV == <<"V">>

StateOps == {PushA, Push7, BindKV, BindKW, BindJV}
InnerOps == {PushA, BindKV, ReleaseK, GateDepth, GateUnboundK, Halt}
Gates    == {GateDepth, GateUnboundK, GateBoundK, GateSymbol, GateNumber}

\* one phase of two operations
PairPrograms == {<<Phase(NameT, <<x, y>>)>> : x \in LeafOps, y \in LeafOps}

\* one phase holding a SATURATE whose block has at most two operations, and
\* an operation after it
SaturatePrograms ==
    {<<Phase(NameT, <<Saturate(<<x, y>>), Push7>>)>> : x \in LeafOps, y \in LeafOps}
    \cup {<<Phase(NameT, <<Saturate(<<x>>)>>)>> : x \in LeafOps}
    \cup {<<Phase(NameT, <<Saturate(<<>>)>>)>>}

\* a SATURATE entered in a state an operation has prepared
PreparedPrograms ==
    {<<Phase(NameT, <<x, Saturate(<<y>>), Halt>>)>> : x \in StateOps, y \in LeafOps}

\* a SATURATE inside a SATURATE
NestedPrograms ==
    {<<Phase(NameT, <<Saturate(<<Saturate(<<x, y>>), z>>), PushA>>)>> :
        x \in InnerOps, y \in {PushA, GateDepth, GateUnboundK}, z \in {PushA, BindKV}}
    \cup {<<Phase(NameT, <<Saturate(<<PushA, Saturate(<<x>>)>>)>>)>> : x \in InnerOps}
    \cup {<<Phase(NameT, <<Saturate(<<Saturate(<<Saturate(<<x>>)>>)>>)>>)>> :
            x \in {PushA, Halt}}

\* a GATE at the top level of a phase, and a phase after it
PhasePrograms ==
    {<<Phase(NameT, <<x, g, y>>), Phase(NameU, <<z>>)>> :
        x \in {PushA, BindKV}, g \in Gates, y \in {PushA, Halt}, z \in {Push7, Halt, BindJV}}

\* GATE conditions beside those above: bound, unbound, depthx < 2, boundary k,
\* depth != 2, depth < x, k, depth > 1, depth == 1, depth < 2 3, and bound k
\* surrounded and separated by more than one space
Conditions ==
    {<<"b", "o", "u", "n", "d">>,
     <<"u", "n", "b", "o", "u", "n", "d">>,
     <<"d", "e", "p", "t", "h", "x", " ", "<", " ", "2">>,
     <<"b", "o", "u", "n", "d", "a", "r", "y", " ", "k">>,
     <<"d", "e", "p", "t", "h", " ", "!", "=", " ", "2">>,
     <<"d", "e", "p", "t", "h", " ", "<", " ", "x">>,
     <<"k">>,
     <<"d", "e", "p", "t", "h", " ", ">", " ", "1">>,
     <<"d", "e", "p", "t", "h", " ", "=", "=", " ", "1">>,
     <<"d", "e", "p", "t", "h", " ", "<", " ", "2", " ", "3">>,
     <<" ", "b", "o", "u", "n", "d", " ", " ", "k", " ">>}

\* a SATURATE whose block ends with a GATE on one of these conditions
ConditionPrograms ==
    {<<Phase(NameT, <<x, Saturate(<<PushA, Operation("GATE", <<StrLit(c)>>)>>), Halt>>)>> :
        x \in {PushA, BindKV}, c \in Conditions}

\* the scenarios of the test suite (src/tests/test_vm.py), with small thresholds
ScenarioPrograms ==
    {<<Phase(NameT, <<PushA, Push7, Invert, Halt>>)>>,
     <<Phase(NameT, <<PushA, Push7, Invert, Invert>>), Phase(NameU, <<Witness>>)>>,
     <<Phase(NameT, <<BindKV, BindJV, Halt>>)>>,
     <<Phase(NameT, <<BindKV, ReleaseK, Halt>>)>>,
     <<Phase(NameT, <<BindKV, BindJV, ReleaseK, ReleaseK>>)>>,
     <<Phase(NameT, <<BindJV, BindKV, BindKW>>)>>,
     <<Phase(NameT, <<PushA, Push7, GateDepth, PushA>>), Phase(NameU, <<BindKV, Witness>>),
       Phase(NameV, <<PushA>>)>>,
     <<Phase(NameT, <<Saturate(<<PushA, GateDepth>>), Halt>>)>>,
     <<Phase(NameT, <<Saturate(<<GateUnboundK, BindKV>>), Halt>>)>>,
     <<Phase(NameT, <<PushA, Witness, Push7, Witness, Halt>>)>>,
     <<Phase(NameT, <<PushA, BindKV, Witness>>), Phase(NameU, <<Invert, ReleaseK, Push7, Witness>>)>>}

Programs ==
    PairPrograms \cup SaturatePrograms \cup PreparedPrograms \cup NestedPrograms
    \cup PhasePrograms \cup ConditionPrograms \cup ScenarioPrograms

-----------------------------------------------------------------------------
(* Inputs: token lists, as Tokenizer.tokenize returns them *)

\* the tokens of the sources below, by their spelling in lower case (lt, gt, eq: < > ==;
\* x, v: the string literals "x" "v"; n5, n7: the numbers 5 and 7)
Tok ==
    [T        |-> Token("KEYWORD", <<"T">>),
     U        |-> Token("KEYWORD", <<"U">>),
     push     |-> Token("KEYWORD", <<"P", "U", "S", "H">>),
     invert   |-> Token("KEYWORD", <<"I", "N", "V", "E", "R", "T">>),
     bind     |-> Token("KEYWORD", <<"B", "I", "N", "D">>),
     release  |-> Token("KEYWORD", <<"R", "E", "L", "E", "A", "S", "E">>),
     gate     |-> Token("KEYWORD", <<"G", "A", "T", "E">>),
     saturate |-> Token("KEYWORD", <<"S", "A", "T", "U", "R", "A", "T", "E">>),
     witness  |-> Token("KEYWORD", <<"W", "I", "T", "N", "E", "S", "S">>),
     halt     |-> Token("KEYWORD", <<"H", "A", "L", "T">>),
     lbrace   |-> Token("LBRACE", <<"{">>),
     rbrace   |-> Token("RBRACE", <<"}">>),
     x        |-> Token("STRING", <<"x">>),
     v        |-> Token("STRING", <<"v">>),
     k        |-> Token("IDENT", <<"k">>),
     depth    |-> Token("IDENT", <<"d", "e", "p", "t", "h">>),
     bound    |-> Token("IDENT", <<"b", "o", "u", "n", "d">>),
     unbound  |-> Token("IDENT", <<"u", "n", "b", "o", "u", "n", "d">>),
     lt       |-> Token("SYMBOL", <<"<">>),
     gt       |-> Token("SYMBOL", <<">">>),
     eq       |-> Token("SYMBOL", <<"=", "=">>),
     n5       |-> Token("NUMBER", <<"5">>),
     n7       |-> Token("NUMBER", <<"7">>)]

\* a condition written as IDENT SYMBOL NUMBER or IDENT IDENT, without quotes
UnquotedConditions ==
    {<<Tok.depth, Tok.lt, Tok.n5>>, <<Tok.depth, Tok.gt, Tok.n5>>,
     <<Tok.depth, Tok.eq, Tok.n5>>, <<Tok.bound, Tok.k>>, <<Tok.unbound, Tok.k>>}

\* the text of a condition: its words with one space between them
ConditionText(cond) ==
    IF Len(cond) = 2 THEN cond[1].value \o <<" ">> \o cond[2].value
    ELSE cond[1].value \o <<" ">> \o cond[2].value \o <<" ">> \o cond[3].value

\* the same condition written as one string literal
Quoted(cond) == <<Token("STRING", ConditionText(cond))>>

\* T { SATURATE { PUSH "x" GATE cond } HALT }
SaturateSource(cond) ==
    <<Tok.T, Tok.lbrace, Tok.saturate, Tok.lbrace, Tok.push, Tok.x, Tok.gate>> \o cond
    \o <<Tok.rbrace, Tok.halt, Tok.rbrace>>

\* T { GATE cond PUSH "x" }
PhaseSource(cond) == <<Tok.T, Tok.lbrace, Tok.gate>> \o cond \o <<Tok.push, Tok.x, Tok.rbrace>>

\* T { PUSH "x" PUSH 7 INVERT BIND k "v" WITNESS RELEASE k } U { SATURATE { } PUSH "x" }
EveryOperatorSource ==
    <<Tok.T, Tok.lbrace, Tok.push, Tok.x, Tok.push, Tok.n7, Tok.invert, Tok.bind, Tok.k, Tok.v,
      Tok.witness, Tok.release, Tok.k, Tok.rbrace,
      Tok.U, Tok.lbrace, Tok.saturate, Tok.lbrace, Tok.rbrace, Tok.push, Tok.x, Tok.rbrace>>

\* sources the grammar rejects: nothing, T { }, T { PUSH }, T { SATURATE { PUSH "x" }
RejectedSources ==
    {<<>>, <<Tok.T, Tok.lbrace, Tok.rbrace>>, <<Tok.T, Tok.lbrace, Tok.push, Tok.rbrace>>,
     <<Tok.T, Tok.lbrace, Tok.saturate, Tok.lbrace, Tok.push, Tok.x, Tok.rbrace>>}

Sources ==
    {SaturateSource(c) : c \in UnquotedConditions}
    \cup {PhaseSource(c) : c \in UnquotedConditions}
    \cup {SaturateSource(Quoted(c)) : c \in UnquotedConditions}
    \cup {PhaseSource(Quoted(c)) : c \in UnquotedConditions}
    \cup {EveryOperatorSource}
    \cup RejectedSources

\* VMConfig()
DefaultConfig ==
    [max_operations          |-> DefaultMaxOperations,
     max_stack_depth         |-> DefaultMaxStackDepth,
     max_saturate_iterations |-> DefaultMaxSaturateIterations,
     max_bindings            |-> DefaultMaxBindings,
     trace_enabled           |-> FALSE]

\* programs run again on the same machine and on a second machine
RerunPrograms ==
    {<<Phase(NameT, <<PushA, Push7, Invert, Witness, Halt>>)>>,
     <<Phase(NameT, <<BindKV, Witness>>), Phase(NameU, <<ReleaseK, PushA, Witness>>)>>,
     <<Phase(NameT, <<Saturate(<<PushA, GateDepth>>), Witness>>)>>,
     <<Phase(NameT, <<BindKV, BindJV, Witness>>)>>,
     <<Phase(NameT, <<Witness, BindKW, GateUnboundK, PushA>>)>>,
     <<Phase(NameT, <<PushA, Witness, GateSymbol>>)>>,
     <<Phase(NameT, <<Saturate(<<BindKV>>), PushA>>)>>}

-----------------------------------------------------------------------------
(* Inputs: source texts *)

\* the texts given to parse_program:
\*   clean     T { PUSH "a" HALT }
\*   stray     T { PUSH "a" @ HALT }
\*   inside    T { PUSH @ "a" }
\*   unclosed  T { PUSH "a }
\*   split     T { PU$SH "a" }
\*   lone      @
\*   commented # @\nT { HALT }
\*   quoted    T { PUSH "@" }
\*   trailing  T { PUSH "a" } ~
\*   every     T{SATURATE{PUSH 7 GATE "depth < 2"}WITNESS}U{BIND k "v" INVERT RELEASE k}
Text ==
    [clean     |->
         <<"T", " ", "{", " ", "P", "U", "S", "H", " ", "\"", "a", "\"",
           " ", "H", "A", "L", "T", " ", "}">>,
     stray     |->
         <<"T", " ", "{", " ", "P", "U", "S", "H", " ", "\"", "a", "\"",
           " ", "@", " ", "H", "A", "L", "T", " ", "}">>,
     inside    |->
         <<"T", " ", "{", " ", "P", "U", "S", "H", " ", "@", " ", "\"",
           "a", "\"", " ", "}">>,
     unclosed  |->
         <<"T", " ", "{", " ", "P", "U", "S", "H", " ", "\"", "a", " ",
           "}">>,
     split     |->
         <<"T", " ", "{", " ", "P", "U", "$", "S", "H", " ", "\"", "a",
           "\"", " ", "}">>,
     lone      |->
         <<"@">>,
     commented |->
         <<"#", " ", "@", "\n", "T", " ", "{", " ", "H", "A", "L", "T",
           " ", "}">>,
     quoted    |->
         <<"T", " ", "{", " ", "P", "U", "S", "H", " ", "\"", "@", "\"",
           " ", "}">>,
     trailing  |->
         <<"T", " ", "{", " ", "P", "U", "S", "H", " ", "\"", "a", "\"",
           " ", "}", " ", "~">>,
     every     |->
         <<"T", "{", "S", "A", "T", "U", "R", "A", "T", "E", "{", "P",
           "U", "S", "H", " ", "7", " ", "G", "A", "T", "E", " ", "\"",
           "d", "e", "p", "t", "h", " ", "<", " ", "2", "\"", "}", "W",
           "I", "T", "N", "E", "S", "S", "}", "U", "{", "B", "I", "N",
           "D", " ", "k", " ", "\"", "v", "\"", " ", "I", "N", "V", "E",
           "R", "T", " ", "R", "E", "L", "E", "A", "S", "E", " ", "k",
           "}">>]

Texts == {Text[name] : name \in DOMAIN Text}

-----------------------------------------------------------------------------
(* Specification *)

\* the state after VirtualMachine(config), before anything is parsed or run
Constructed ==
    /\ program = <<>>
    /\ stack = <<>>
    /\ bindings = NoBindings
    /\ phase_counter = 0
    /\ operation_counter = 0
    /\ halted = FALSE
    /\ trace = <<>>
    /\ current_phase_name = NoneName
    /\ pc = "idle"
    /\ phase_idx = 0
    /\ op_idx = 0
    /\ frames = <<>>
    /\ raised = NoException
    /\ result = NoResult
    /\ source = <<>>
    /\ tokens = <<>>
    /\ instance = 1
    /\ runs = 0
    /\ reference = <<>>

Init == config \in Configs /\ Constructed

\* execute is called on a machine that has run nothing yet
Execute ==
    /\ pc = "idle"
    /\ \E p \in Programs : ExecuteCall(p)
    /\ UNCHANGED <<source, tokens, reference>>

\* the steps of an execution under way
Step ==
    \/ BeginPhase
    \/ EndPhase
    \/ ExecuteReturn
    \/ OpPush
    \/ OpInvert
    \/ OpBind
    \/ OpRelease
    \/ OpGate
    \/ OpSaturate
    \/ SaturateBlockEnd
    \/ OpWitness
    \/ OpHalt

Next == Execute \/ Step

Spec == Init /\ [][Next]_vars

\* parse_program(source): the Parser is given the tokens of a source
ParseSource ==
    /\ pc = "idle" /\ tokens = <<>>
    /\ \E src \in Sources :
          /\ tokens' = src
          /\ LET parsed == ParseProgram(src) IN
             IF parsed.ok
             THEN program' = parsed.value /\ pc' = "parsed"
             ELSE program' = program /\ pc' = "parse_error"
    /\ UNCHANGED <<config, stack, bindings, phase_counter, operation_counter, halted,
                   trace, current_phase_name, phase_idx, op_idx, frames, raised,
                   result, source, instance, runs, reference>>

\* execute is called with the program parse_program returned
ExecuteParsed ==
    /\ pc = "parsed"
    /\ ExecuteCall(program)
    /\ UNCHANGED <<source, tokens, reference>>

ParseInit == config \in Configs \cup {DefaultConfig} /\ Constructed

ParseNext == ParseSource \/ ExecuteParsed \/ Step

\* a source is parsed and the program is executed
ParseSpec == ParseInit /\ [][ParseNext]_vars

\* what an execution that has ended leaves behind: how execute was left, the
\* ExecutionResult it returned, and the fields of the machine
Outcome ==
    [pc |-> pc, exc |-> raised.exc, result |-> result,
     stack |-> stack, bindings |-> bindings, phase_counter |-> phase_counter,
     operation_counter |-> operation_counter, halted |-> halted, trace |-> trace]

\* the history with the execution that has just ended
Recorded == Append(reference, [config |-> config, program |-> program, outcome |-> Outcome])

\* execute is called on a machine that has run nothing yet: any program on the
\* first machine, the program of the first execution on a later machine
ExecuteFresh ==
    /\ pc = "idle"
    /\ \E p \in RerunPrograms :
          /\ reference # <<>> => p = reference[1].program
          /\ ExecuteCall(p)
    /\ UNCHANGED <<source, tokens, reference>>

\* execute is called again on the first machine after an execution has ended:
\* any program, and at the last call the program of the first execution
ExecuteAgain ==
    /\ pc \in {"returned", "escaped"}
    /\ instance = 1 /\ runs < MaxRuns
    /\ \E p \in RerunPrograms :
          /\ runs + 1 = MaxRuns => p = Recorded[1].program
          /\ ExecuteCall(p)
    /\ reference' = Recorded
    /\ UNCHANGED <<source, tokens>>

\* VirtualMachine(config) is constructed once more after the first execution of
\* a machine, with the same budgets and trace_enabled as before or inverted
NewMachine ==
    /\ pc \in {"returned", "escaped"}
    /\ runs = 1 /\ instance < MaxInstances
    /\ instance' = instance + 1
    /\ runs' = 0
    /\ config' \in {config, [config EXCEPT !.trace_enabled = ~@]}
    /\ Reset
    /\ pc' = "idle"
    /\ phase_idx' = 0
    /\ op_idx' = 0
    /\ frames' = <<>>
    /\ raised' = NoException
    /\ result' = NoResult
    /\ reference' = Recorded
    /\ UNCHANGED <<program, source, tokens>>

RerunNext == ExecuteFresh \/ ExecuteAgain \/ NewMachine \/ Step

\* programs are executed one after another on one machine and on fresh machines
RerunSpec == Init /\ [][RerunNext]_vars

\* parse_program(source): the text is tokenized and the tokens are parsed
ParseText ==
    /\ pc = "idle" /\ source = <<>> /\ tokens = <<>>
    /\ \E text \in Texts :
          /\ source' = text
          /\ \E t \in {Tokenize(text, 1, <<>>, {})} :
                /\ tokens' = t.tokens
                /\ \E parsed \in {ParseProgram(t.tokens)} :
                      IF parsed.ok
                      THEN program' = parsed.value /\ pc' = "parsed"
                      ELSE program' = program /\ pc' = "parse_error"
    /\ UNCHANGED <<config, stack, bindings, phase_counter, operation_counter, halted,
                   trace, current_phase_name, phase_idx, op_idx, frames, raised,
                   result, instance, runs, reference>>

TextNext == ParseText \/ ExecuteParsed \/ Step

\* a source text is tokenized and parsed and the program is executed
TextSpec == ParseInit /\ [][TextNext]_vars

\* the interpreter runs execute to its end: a step of an execution under way
\* that can be taken is taken
FairSpec == Spec /\ WF_vars(Step)

-----------------------------------------------------------------------------
(* Properties *)

Statuses == {"COMPLETE", "HALTED", "TERM_OP_LIMIT", "TERM_CYCLE_LIMIT",
             "ERR_STACK_OVERFLOW", "ERR_BINDINGS_OVERFLOW", "ERR_CONDITION"}

Stopped == pc \in {"returned", "escaped"}

\* the operator of the operation about to be dispatched passes the budget check
Dispatches(operator) ==
    /\ HasCurOp
    /\ CurOp.operator = operator
    /\ operation_counter < config.max_operations

\* execute returns in this step with the given status
ReturnsWith(status) ==
    /\ pc = "running"
    /\ pc' = "returned"
    /\ result'.status = status

\* the returned result reports the state the step started from
ReportsStateBefore ==
    /\ stack' = stack
    /\ bindings' = bindings
    /\ result'.final_state.stack = stack
    /\ result'.final_state.bindings = bindings

\* C1 (budget safety): in every state of an execution and in the returned
\* result, operation_counter <= max_operations, len(stack) <= max_stack_depth
\* and len(bindings) <= max_bindings.
C1_BudgetSafety ==
    /\ operation_counter <= config.max_operations
    /\ Len(stack) <= config.max_stack_depth
    /\ Cardinality(DOMAIN bindings) <= config.max_bindings
    /\ pc = "returned" =>
          /\ result.operations_executed <= config.max_operations
          /\ Len(result.final_state.stack) <= config.max_stack_depth
          /\ Cardinality(DOMAIN result.final_state.bindings) <= config.max_bindings

\* an execution has returned with all three budgets used up exactly
C1_Witness ==
    /\ pc = "returned"
    /\ config.max_operations > 0 /\ result.operations_executed = config.max_operations
    /\ config.max_stack_depth > 0 /\ Len(result.final_state.stack) = config.max_stack_depth
    /\ config.max_bindings > 0
    /\ Cardinality(DOMAIN result.final_state.bindings) = config.max_bindings

\* C2 (termination): every execution that has started eventually stops, for
\* every program (nested and empty SATURATE blocks included) and every
\* configuration.
C2_Termination == (pc = "running") ~> Stopped

\* an execution of a SATURATE inside a SATURATE has run to COMPLETE after the
\* outer block was executed more than once
C2_Witness ==
    /\ pc = "returned"
    /\ result.status = "COMPLETE"
    /\ program = <<Phase(NameT, <<Saturate(<<Saturate(<<BindKV, GateUnboundK>>), BindKV>>),
                                  PushA>>)>>
    /\ operation_counter = 10

\* C3: every execution ends by returning a result with one of the seven
\* statuses that reports the final stack and bindings; no control-flow signal
\* or other failure leaves execute.
C3_AlwaysResult ==
    /\ pc # "escaped"
    /\ pc = "returned" =>
          /\ result.status \in Statuses
          /\ result.final_state.stack = stack
          /\ result.final_state.bindings = bindings

\* GATE "unbound k" after BIND "k" "w", outside every SATURATE: BreakBlock has
\* left execute and no result exists
C3_Witness ==
    /\ pc = "escaped"
    /\ raised = [exc |-> "BreakBlock", depth |-> 0]
    /\ program = <<Phase(NameT, <<BindKW, GateUnboundK>>)>>
    /\ result = NoResult

\* a GATE outside every SATURATE body is dispatched and evaluates to false
TopLevelGateFalse ==
    /\ Dispatches("GATE")
    /\ frames = <<>>
    /\ LET c == EvaluateCondition(CurOp.arguments[1].value, stack, bindings)
       IN  c.exc = "none" /\ ~c.value

\* C4: a false GATE outside every SATURATE body ends the current phase only:
\* the execution goes on, stack and bindings are kept, the rest of the phase
\* is skipped, and a COMPLETE result has begun every phase.
C4_TopLevelGate ==
    /\ [][TopLevelGateFalse =>
            /\ pc' = "running"
            /\ stack' = stack /\ bindings' = bindings
            /\ phase_idx' = phase_idx
            /\ op_idx' = 0 \/ op_idx' > Len(program[phase_idx].operations)]_vars
    /\ [](pc = "returned" /\ result.status = "COMPLETE"
            => result.phases_executed = Len(program))

\* T { PUSH "a" GATE "bound k" PUSH "a" } U { HALT }: the false GATE of phase
\* T has ended the execution, phase U never began
C4_Witness ==
    /\ pc = "escaped"
    /\ program = <<Phase(NameT, <<PushA, GateBoundK, PushA>>), Phase(NameU, <<Halt>>)>>
    /\ stack = <<(<<"a">>)>>
    /\ phase_counter = 1
    /\ ~halted

\* C5: BIND of a key that is already bound always succeeds: the value is
\* replaced, the number of bindings is unchanged, no error is raised, even
\* with max_bindings entries.
C5_OverwriteAllowed ==
    [][(Dispatches("BIND") /\ Str(CurOp.arguments[1].value) \in DOMAIN bindings) =>
          /\ pc' = "running"
          /\ DOMAIN bindings' = DOMAIN bindings
          /\ bindings'[Str(CurOp.arguments[1].value)] = Str(CurOp.arguments[2].value)
          /\ \A k \in DOMAIN bindings :
                k # Str(CurOp.arguments[1].value) => bindings'[k] = bindings[k]]_vars

\* BIND "k" "w" after BIND "k" "v" with max_bindings = 1 was refused: the
\* binding of k still holds v
C5_Witness ==
    /\ pc = "returned"
    /\ result.status = "ERR_BINDINGS_OVERFLOW"
    /\ program = <<Phase(NameT, <<BindKV, BindKW>>)>>
    /\ config.max_bindings = 1
    /\ result.final_state.bindings = BindingsSet(NoBindings, <<"k">>, <<"v">>)
    /\ result.operations_executed = 2

\* C6 (operation budget): a dispatch attempted with operation_counter =
\* max_operations ends the execution with TERM_OP_LIMIT, with stack, bindings
\* and trace untouched and operations_executed = max_operations, at any
\* SATURATE depth; TERM_OP_LIMIT arises in no other way, so a program that
\* dispatches exactly max_operations operations is not cut off.
C6_OperationBudget ==
    [][/\ (HasCurOp /\ operation_counter = config.max_operations) =>
            /\ ReturnsWith("TERM_OP_LIMIT")
            /\ ReportsStateBefore
            /\ trace' = trace
            /\ result'.operations_executed = config.max_operations
       /\ (HasCurOp /\ operation_counter < config.max_operations) =>
            /\ operation_counter' = operation_counter + 1
            /\ ~ReturnsWith("TERM_OP_LIMIT")
       /\ ReturnsWith("TERM_OP_LIMIT") =>
            HasCurOp /\ operation_counter = config.max_operations]_vars

\* TERM_OP_LIMIT has been returned for an operation two SATURATE blocks deep
C6_Witness ==
    /\ pc = "returned"
    /\ result.status = "TERM_OP_LIMIT"
    /\ raised = [exc |-> "OperationLimitError", depth |-> 2]
    /\ config.max_operations > 0
    /\ result.operations_executed = config.max_operations

\* C7: PUSH dispatched on a full stack ends the execution with
\* ERR_STACK_OVERFLOW and leaves stack and bindings as they were, so the
\* reported stack has max_stack_depth elements; PUSH dispatched on a stack
\* that is not full appends the string form of its argument.
C7_Push ==
    [][Dispatches("PUSH") =>
          IF Len(stack) = config.max_stack_depth
          THEN /\ ReturnsWith("ERR_STACK_OVERFLOW")
               /\ ReportsStateBefore
               /\ Len(result'.final_state.stack) = config.max_stack_depth
          ELSE /\ Len(stack) < config.max_stack_depth
               /\ pc' = "running"
               /\ Len(stack') = Len(stack) + 1
               /\ SubSeq(stack', 1, Len(stack)) = stack
               /\ CurOp = PushA => stack'[Len(stack')] = <<"a">>
               /\ CurOp = Push7 => stack'[Len(stack')] = <<"7">>
               /\ bindings' = bindings]_vars

\* PUSH of the number 7 on the full stack <<"a">> was refused
C7_Witness ==
    /\ pc = "returned"
    /\ result.status = "ERR_STACK_OVERFLOW"
    /\ program = <<Phase(NameT, <<PushA, Push7>>)>>
    /\ result.final_state.stack = <<(<<"a">>)>>
    /\ config.max_stack_depth = 1

\* C8: BIND of a new key with max_bindings entries held ends the execution
\* with ERR_BINDINGS_OVERFLOW and leaves stack and bindings as they were; with
\* fewer entries it inserts the key with the value.
C8_BindNewKey ==
    [][(Dispatches("BIND") /\ Str(CurOp.arguments[1].value) \notin DOMAIN bindings) =>
          LET key   == Str(CurOp.arguments[1].value)
              value == Str(CurOp.arguments[2].value)
          IN  IF Cardinality(DOMAIN bindings) = config.max_bindings
              THEN /\ ReturnsWith("ERR_BINDINGS_OVERFLOW")
                   /\ ReportsStateBefore
              ELSE /\ Cardinality(DOMAIN bindings) < config.max_bindings
                   /\ pc' = "running"
                   /\ DOMAIN bindings' = (DOMAIN bindings) \cup {key}
                   /\ bindings'[key] = value
                   /\ \A k \in DOMAIN bindings : bindings'[k] = bindings[k]
                   /\ stack' = stack]_vars

\* BIND of the new key j was refused with the one allowed binding k held
C8_Witness ==
    /\ pc = "returned"
    /\ result.status = "ERR_BINDINGS_OVERFLOW"
    /\ program = <<Phase(NameT, <<BindKV, BindJV>>)>>
    /\ config.max_bindings = 1
    /\ DOMAIN result.final_state.bindings = {<<"k">>}

\* the block of the innermost SATURATE has been executed to its end
BlockComplete ==
    /\ pc = "running" /\ frames # <<>>
    /\ Head(frames).pos > Len(Head(frames).operations)

\* ... and left stack or bindings different from the snapshot taken before it
BlockChangedState ==
    /\ BlockComplete
    /\ stack # Head(frames).state_before.stack
          \/ bindings # Head(frames).state_before.bindings

\* a GATE inside a SATURATE body is dispatched and evaluates to false
InnerGateFalse ==
    /\ Dispatches("GATE")
    /\ frames # <<>>
    /\ LET c == EvaluateCondition(CurOp.arguments[1].value, stack, bindings)
       IN  c.exc = "none" /\ ~c.value

\* C9: a SATURATE fails with TERM_CYCLE_LIMIT exactly when
\* max_saturate_iterations consecutive complete executions of its block each
\* changed stack or bindings; iteration counts these executions; a SATURATE
\* left through a fixed point or a GATE break does not fail.
C9_CycleLimit ==
    [][/\ ReturnsWith("TERM_CYCLE_LIMIT") <=>
            \/ /\ BlockChangedState
               /\ Head(frames).iteration + 1 = config.max_saturate_iterations
            \/ /\ Dispatches("SATURATE")
               /\ config.max_saturate_iterations = 0
       /\ (frames' # <<>> /\ Len(frames') = Len(frames) + 1) =>
            Head(frames').iteration = 0
       /\ (frames # <<>> /\ Len(frames') = Len(frames)
              /\ Head(frames').iteration # Head(frames).iteration) =>
            /\ BlockChangedState
            /\ Head(frames').iteration = Head(frames).iteration + 1
       /\ (BlockChangedState /\ pc' = "running") =>
            /\ Len(frames') = Len(frames)
            /\ Head(frames').iteration = Head(frames).iteration + 1
       /\ (InnerGateFalse \/ (BlockComplete /\ ~BlockChangedState)) =>
            /\ pc' = "running"
            /\ frames' = Tail(frames)]_vars

\* SATURATE { PUSH "a" } has failed with TERM_CYCLE_LIMIT after two executions
C9_Witness ==
    /\ pc = "returned"
    /\ result.status = "TERM_CYCLE_LIMIT"
    /\ program = <<Phase(NameT, <<Saturate(<<PushA>>)>>)>>
    /\ config.max_saturate_iterations = 2
    /\ result.final_state.stack = <<(<<"a">>), (<<"a">>)>>
    /\ result.operations_executed = 3

\* the innermost SATURATE is the operation before the position of its caller
FrameOfCaller ==
    frames # <<>> =>
        LET ops == IF Len(frames) = 1 THEN program[phase_idx].operations
                   ELSE frames[2].operations
            pos == IF Len(frames) = 1 THEN op_idx ELSE frames[2].pos
        IN  /\ pos >= 2
            /\ ops[pos - 1].operator = "SATURATE"
            /\ ops[pos - 1].arguments[1].block = Head(frames).operations

\* C10 (fixed-point law): when the first execution of a SATURATE block ends
\* with stack and bindings equal to the snapshot taken before it, the block
\* is not executed again, no error is raised, and the execution goes on with
\* the operation after the SATURATE.
C10_FixedPoint ==
    [][(BlockComplete /\ Head(frames).iteration = 0
          /\ stack = Head(frames).state_before.stack
          /\ bindings = Head(frames).state_before.bindings) =>
            /\ FrameOfCaller
            /\ pc' = "running"
            /\ frames' = Tail(frames)
            /\ op_idx' = op_idx
            /\ raised' = raised
            /\ UNCHANGED <<stack, bindings, operation_counter, trace>>]_vars

\* SATURATE { BIND "k" "v" RELEASE "k" } was executed once, then PUSH 7 ran
C10_Witness ==
    /\ pc = "returned"
    /\ result.status = "COMPLETE"
    /\ program = <<Phase(NameT, <<Saturate(<<BindKV, ReleaseK>>), Push7>>)>>
    /\ result.operations_executed = 4
    /\ result.final_state.stack = <<(<<"7">>)>>

\* C11: a GATE that evaluates to false inside a SATURATE body ends only the
\* innermost SATURATE: the rest of the block is skipped, stack and bindings
\* (the effects of the iteration so far) are kept, no error is raised, and the
\* loop that holds that SATURATE stands at the operation after it, with the
\* enclosing SATURATE invocations untouched.
C11_InnerGate ==
    [][InnerGateFalse =>
          /\ FrameOfCaller
          /\ pc' = "running"
          /\ frames' = Tail(frames)
          /\ op_idx' = op_idx
          /\ stack' = stack /\ bindings' = bindings /\ trace' = trace
          /\ ~halted'
          /\ raised' = [exc |-> "BreakBlock", depth |-> Len(frames)]]_vars

\* in SATURATE { SATURATE { BIND "k" "v" GATE "unbound k" } BIND "k" "v" } the
\* GATE has ended the inner SATURATE in the outer block's first execution; the
\* binding made before the GATE is kept and the outer block goes on
C11_Witness ==
    /\ pc = "running"
    /\ program = <<Phase(NameT, <<Saturate(<<Saturate(<<BindKV, GateUnboundK>>), BindKV>>),
                                  PushA>>)>>
    /\ raised = [exc |-> "BreakBlock", depth |-> 2]
    /\ Len(frames) = 1
    /\ Head(frames).pos = 2 /\ Head(frames).iteration = 0
    /\ DOMAIN bindings = {<<"k">>}
    /\ operation_counter = 4

\* C12: once HALT is dispatched, at any SATURATE depth, execute returns in
\* that very step, so no further operation is dispatched and no further phase
\* begins: the status is HALTED, operations_executed counts the operations up
\* to and including the HALT, phases_executed is the index of the phase that
\* holds the HALT, and stack and bindings are those at the HALT.
C12_Halt ==
    /\ [][Dispatches("HALT") =>
            /\ ReturnsWith("HALTED")
            /\ ReportsStateBefore
            /\ result'.operations_executed = operation_counter + 1
            /\ result'.phases_executed = phase_idx
            /\ program[phase_idx].name = current_phase_name]_vars
    /\ [](halted => pc = "returned" /\ result.status = "HALTED")

\* HALT three SATURATE blocks deep has ended the execution
C12_Witness ==
    /\ pc = "returned"
    /\ result.status = "HALTED"
    /\ raised = [exc |-> "HaltProgram", depth |-> 3]
    /\ result.operations_executed = 4
    /\ result.phases_executed = 1

\* the GATE operation that carries a whole condition
GateOf(cond) == Operation("GATE", <<Reference(ConditionText(cond))>>)

PushX == Operation("PUSH", <<StrLit(<<"x">>)>>)

\* C13: a GATE condition written as the tokens depth < N, depth > N,
\* depth == N, bound K or unbound K parses, without ParseError, into one GATE
\* operation that carries the whole condition, followed by the operations
\* written after it; T { SATURATE { PUSH "x" GATE depth < 5 } HALT } parses to
\* a SATURATE with a block and its execution leaves five elements on the stack.
C13_ConditionParses ==
    /\ \A c \in UnquotedConditions :
          /\ tokens = SaturateSource(c) =>
                /\ pc # "parse_error"
                /\ program = <<Phase(<<"T">>, <<Saturate(<<PushX, GateOf(c)>>), Halt>>)>>
          /\ tokens = PhaseSource(c) =>
                /\ pc # "parse_error"
                /\ program = <<Phase(<<"T">>, <<GateOf(c), PushX>>)>>
    /\ (tokens = SaturateSource(<<Tok.depth, Tok.lt, Tok.n5>>) /\ config = DefaultConfig
           /\ Stopped) =>
          /\ pc = "returned"
          /\ result.final_state.stack = [i \in 1..5 |-> <<"x">>]

\* T { SATURATE { PUSH "x" GATE depth < 5 } HALT } was refused by the parser,
\* and no program exists to execute
C13_Witness ==
    /\ tokens = SaturateSource(<<Tok.depth, Tok.lt, Tok.n5>>)
    /\ pc = "parse_error"
    /\ program = <<>>

C15_ResetSafety ==
    /\ []((Stopped /\ instance = 1 /\ runs > 1 /\ program = reference[1].program) =>
            Outcome = reference[1].outcome)
    /\ [][runs' = runs + 1 =>
            /\ stack' = <<>> /\ bindings' = NoBindings
            /\ phase_counter' = 0 /\ operation_counter' = 0
            /\ ~halted' /\ trace' = <<>> /\ result' = NoResult]_vars

C15_Witness ==
    /\ Stopped /\ instance = 1 /\ runs = 3 /\ Len(reference) = 2
    /\ program = <<Phase(NameT, <<Saturate(<<BindKV>>), PushA>>)>>
    /\ reference[2].program = <<Phase(NameT, <<PushA, Push7, Invert, Witness, Halt>>)>>
    /\ reference[2].outcome.halted /\ Len(reference[2].outcome.trace) = 1
    /\ reference[2].outcome.stack = <<(<<"7">>), (<<"a">>)>>
    /\ result.status = "COMPLETE" /\ result.trace = <<>>
    /\ result.final_state.stack = <<(<<"a">>)>>
    /\ DOMAIN result.final_state.bindings = {<<"k">>}
    /\ reference[1].outcome.result = result

\* C16: tracing transparency. The executions of a program under the same four
\* budgets with trace_enabled true and false leave execute the same way with
\* the same status, phases_executed, operations_executed, final stack and
\* bindings; the trace of the execution without tracing is empty.
C16_TracingTransparency ==
    (Stopped /\ instance > 1 /\ program = reference[1].program
       /\ config = [reference[1].config EXCEPT !.trace_enabled = ~@]) =>
        /\ [Outcome EXCEPT !.trace = <<>>, !.result.trace = <<>>]
             = [reference[1].outcome EXCEPT !.trace = <<>>, !.result.trace = <<>>]
        /\ ~config.trace_enabled => trace = <<>> /\ result.trace = <<>>
        /\ config.trace_enabled =>
              /\ reference[1].outcome.trace = <<>>
              /\ reference[1].outcome.result.trace = <<>>

C16_Witness ==
    /\ Stopped /\ instance = 2 /\ ~config.trace_enabled /\ reference[1].config.trace_enabled
    /\ program = <<Phase(NameT, <<BindKV, Witness>>), Phase(NameU, <<ReleaseK, PushA, Witness>>)>>
    /\ result.status = "COMPLETE" /\ result.phases_executed = 2
    /\ result.operations_executed = 5 /\ result.trace = <<>>
    /\ Len(reference[1].outcome.result.trace) = 2
    /\ reference[1].outcome.result.final_state = result.final_state

\* C17: with tracing enabled every dispatched WITNESS appends one record to
\* the trace, holding the name of the phase under execution, the value of
\* operation_counter at that WITNESS, and the stack and bindings of that
\* moment; no other step of an execution changes the trace, so earlier records
\* stay as they were; the result returns this trace.
C17_WitnessTrace ==
    /\ [][(Dispatches("WITNESS") /\ config.trace_enabled) =>
            /\ trace' = Append(trace, [phase     |-> program[phase_idx].name,
                                       operation |-> operation_counter + 1,
                                       stack     |-> stack,
                                       bindings  |-> bindings])
            /\ stack' = stack /\ bindings' = bindings]_vars
    /\ [][(pc = "running" /\ ~(Dispatches("WITNESS") /\ config.trace_enabled)) =>
            trace' = trace]_vars
    /\ []((pc = "returned" /\ config.trace_enabled) => result.trace = trace)

C17_Witness ==
    /\ pc = "returned" /\ config.trace_enabled
    /\ Len(result.trace) = 2
    /\ result.trace[1].stack # result.trace[2].stack
    /\ result.trace[1].operation < result.trace[2].operation
    /\ result.trace[2].stack # result.final_state.stack

\* C18: SATURATE termination law. An invocation of op_saturate executes its
\* block at most max_saturate_iterations + 1 times; a nested SATURATE starts
\* counting at zero whatever the count of the enclosing one, which it leaves
\* untouched, and every further execution of a block counts one more.
C18_SaturateLaw ==
    /\ [](\A i \in 1..Len(frames) :
             frames[i].iteration + 1 <= config.max_saturate_iterations + 1)
    /\ [][Dispatches("SATURATE") /\ Len(frames') > Len(frames) =>
            /\ Head(frames').iteration = 0
            /\ \A i \in 1..Len(frames) : frames'[i + 1].iteration = frames[i].iteration]_vars
    /\ [][(BlockComplete /\ Len(frames') = Len(frames)) =>
            /\ Head(frames').iteration = Head(frames).iteration + 1
            /\ Head(frames').pos = 1
            /\ Tail(frames') = Tail(frames)]_vars

C18_Witness ==
    /\ Len(frames) = 2 /\ config.max_saturate_iterations = MaxIterations
    /\ frames[2].iteration + 1 = config.max_saturate_iterations
    /\ frames[1].iteration = 0 /\ frames[1].pos > 1

\* C19: overwrite law. Where BIND k v1 is directly followed by BIND k v2 and k
\* is not bound before the first of them (no earlier operation of the phase
\* binds k), the first BIND, if max_bindings admits one more binding, binds k,
\* and the second BIND then succeeds, leaves k bound to v2 and the number of
\* bindings one above that of the state before the pair.
C19_OverwriteLaw ==
    [][\A p \in IF pc = "running" /\ frames = <<>> /\ phase_idx = 1
                THEN 1..(Len(program[1].operations) - 1) ELSE {} :
          LET ops == program[1].operations
              key == Str(ops[p].arguments[1].value)
          IN  (/\ ops[p].operator = "BIND" /\ ops[p + 1].operator = "BIND"
               /\ Str(ops[p + 1].arguments[1].value) = key
               /\ \A i \in 1..(p - 1) :
                     /\ ops[i].operator # "SATURATE"
                     /\ ops[i].operator = "BIND" => Str(ops[i].arguments[1].value) # key
               /\ Dispatches("BIND")) =>
                /\ (op_idx = p /\ BindingCount(bindings) < config.max_bindings) =>
                      /\ key \notin DOMAIN bindings
                      /\ pc' = "running"
                      /\ bindings'[key] = Str(ops[p].arguments[2].value)
                      /\ BindingCount(bindings') = BindingCount(bindings) + 1
                /\ op_idx = p + 1 =>
                      /\ key \in DOMAIN bindings
                      /\ pc' = "running"
                      /\ bindings'[key] = Str(ops[p + 1].arguments[2].value)
                      /\ BindingCount(bindings') = (BindingCount(bindings) - 1) + 1]_vars

\* BIND "k" "v" directly after BIND "k" "w", with max_bindings = 1 and nothing
\* bound before the pair, was refused: k is still bound to w
C19_Witness ==
    /\ pc = "returned"
    /\ program = <<Phase(NameT, <<BindKW, BindKV>>)>>
    /\ config.max_bindings = 1
    /\ result.status = "ERR_BINDINGS_OVERFLOW"
    /\ result.final_state.bindings = BindingsSet(NoBindings, <<"k">>, <<"w">>)
    /\ result.final_state.binding_count = 1

\* C20: GATE condition evaluation. A condition of the three words depth, one
\* of < > ==, and an integer N is true exactly when len(stack) stands in that
\* relation to N; bound K is true exactly when K is a key of the bindings,
\* unbound K exactly when it is not; a true condition lets execution continue
\* with the next operation and a false one raises the break signal. A string
\* condition of any other shape ends the execution with ERR_CONDITION.
C20_ConditionEvaluation ==
    [][(Dispatches("GATE") /\ CurOp.arguments[1].value.py = "str") =>
          LET parts == Split(CurOp.arguments[1].value.s)
              Acts(truth) ==
                  IF truth
                  THEN /\ pc' = "running" /\ raised' = raised
                       /\ frames' = AdvancedFrames /\ op_idx' = AdvancedOpIdx
                  ELSE raised' = [exc |-> "BreakBlock", depth |-> Len(frames)]
          IN  IF /\ Len(parts) = 3 /\ parts[1] = <<"d", "e", "p", "t", "h">>
                 /\ parts[2] \in {<<"<">>, <<">">>, <<"=", "=">>}
                 /\ ParseInt(parts[3]).ok
              THEN Acts(CASE parts[2] = <<"<">> -> Len(stack) < ParseInt(parts[3]).value
                          [] parts[2] = <<">">> -> Len(stack) > ParseInt(parts[3]).value
                          [] OTHER -> Len(stack) = ParseInt(parts[3]).value)
              ELSE IF Len(parts) = 2 /\ parts[1] = <<"b", "o", "u", "n", "d">>
              THEN Acts(parts[2] \in DOMAIN bindings)
              ELSE IF Len(parts) = 2 /\ parts[1] = <<"u", "n", "b", "o", "u", "n", "d">>
              THEN Acts(parts[2] \notin DOMAIN bindings)
              ELSE ReturnsWith("ERR_CONDITION")]_vars

\* GATE "bound", without a key, acted as a false gate: the SATURATE was left
\* after one execution of its block and the program ran on to HALT
C20_Witness ==
    /\ pc = "returned" /\ result.status = "HALTED"
    /\ program = <<Phase(NameT, <<PushA, Saturate(<<PushA, Operation("GATE", <<StrLit(<<"b", "o", "u", "n", "d">>)>>)>>), Halt>>)>>
    /\ result.operations_executed = 5
    /\ result.final_state.stack = <<(<<"a">>), (<<"a">>)>>

\* C21: INVERT involution. A dispatched INVERT succeeds whatever the size of
\* the stack, puts the element at position i at position len + 1 - i and
\* changes neither bindings nor trace nor halted; where a phase starts with
\* PUSH operations followed by INVERT; INVERT, the stack after the first
\* INVERT is the pushed values in reverse and after the second the pushed
\* values in the order they were pushed.
C21_InvertInvolution ==
    /\ [][Dispatches("INVERT") =>
            /\ pc' = "running" /\ raised' = raised
            /\ Len(stack') = Len(stack)
            /\ \A i \in 1..Len(stack) : stack'[i] = stack[Len(stack) + 1 - i]
            /\ bindings' = bindings /\ trace' = trace /\ halted' = halted]_vars
    /\ [](\A p \in IF pc = "running" /\ frames = <<>> /\ phase_idx = 1
                   THEN 1..(Len(program[1].operations) - 1) ELSE {} :
            LET ops    == program[1].operations
                pushed == [i \in 1..(p - 1) |-> Str(ops[i].arguments[1].value)]
            IN  (/\ ops[p].operator = "INVERT" /\ ops[p + 1].operator = "INVERT"
                 /\ \A i \in 1..(p - 1) : ops[i].operator = "PUSH") =>
                  /\ op_idx = p + 1 =>
                        stack = [i \in 1..(p - 1) |-> pushed[p - i]]
                  /\ op_idx = p + 2 => stack = pushed)

\* PUSH "a"; PUSH 7; INVERT; INVERT has been executed: the stack is a, 7 again
C21_Witness ==
    /\ pc = "running" /\ frames = <<>> /\ phase_idx = 1 /\ op_idx = 5
    /\ program = <<Phase(NameT, <<PushA, Push7, Invert, Invert>>), Phase(NameU, <<Witness>>)>>
    /\ stack = <<(<<"a">>), (<<"7">>)>>
    /\ operation_counter = 4

\* C22: RELEASE idempotence. A dispatched RELEASE k never fails: it removes k
\* from the bindings when k is bound and changes nothing when it is not, and
\* leaves the stack, the trace and every other binding as they were; a RELEASE
\* k directly after a RELEASE k finds k unbound and changes neither stack nor
\* bindings, so the pair leaves what the first RELEASE left.
C22_ReleaseIdempotent ==
    [][Dispatches("RELEASE") =>
          LET key == Str(CurOp.arguments[1].value) IN
          /\ pc' = "running" /\ raised' = raised
          /\ DOMAIN bindings' = (DOMAIN bindings) \ {key}
          /\ \A k \in DOMAIN bindings' : bindings'[k] = bindings[k]
          /\ key \notin DOMAIN bindings => bindings' = bindings
          /\ stack' = stack /\ trace' = trace /\ halted' = halted
          /\ (/\ CurPos > 1
              /\ CurOps[CurPos - 1].operator = "RELEASE"
              /\ Str(CurOps[CurPos - 1].arguments[1].value) = key) =>
                /\ key \notin DOMAIN bindings
                /\ bindings' = bindings]_vars

\* BIND "k" "v"; BIND j "v"; RELEASE "k"; RELEASE "k" has been executed: only
\* the binding of j is left
C22_Witness ==
    /\ pc = "returned" /\ result.status = "COMPLETE"
    /\ program = <<Phase(NameT, <<BindKV, BindJV, ReleaseK, ReleaseK>>)>>
    /\ result.operations_executed = 4
    /\ result.final_state.bindings = BindingsSet(NoBindings, <<"j">>, <<"v">>)

\* C23: during an execution operation_counter never decreases; it rises by
\* exactly 1 in the step that dispatches an operation, whatever the operator
\* and whether the operation then succeeds, fails or ends the execution, and
\* stays as it is in every other step; the result reports it as
\* operations_executed.
C23_OperationCounter ==
    /\ [][pc = "running" =>
            /\ operation_counter' >= operation_counter
            /\ IF HasCurOp /\ operation_counter < config.max_operations
               THEN operation_counter' = operation_counter + 1
               ELSE operation_counter' = operation_counter
            /\ pc' = "returned" => result'.operations_executed = operation_counter']_vars
    /\ [](pc = "returned" => result.operations_executed = operation_counter)
    /\ [](pc = "idle" => operation_counter = 0)

\* PUSH "a"; GATE < 2: the GATE with the invalid condition is counted
C23_Witness ==
    /\ pc = "returned" /\ result.status = "ERR_CONDITION"
    /\ program = <<Phase(NameT, <<PushA, GateSymbol, PushA>>), Phase(NameU, <<Halt>>)>>
    /\ ~config.trace_enabled
    /\ result.operations_executed = 2 /\ operation_counter = 2

\* C24: a SATURATE with an empty block, under every configuration: its
\* dispatch raises no error and leaves execution running with stack and
\* bindings unchanged, and the first comparison of the snapshots (iteration 0)
\* ends the invocation, with control back in the enclosing loop.
C24_EmptySaturate ==
    /\ [][(Dispatches("SATURATE") /\ CurOp.arguments[1].block = <<>>) =>
            /\ pc' = "running"
            /\ raised'.exc # "CycleLimitError"
            /\ stack' = stack /\ bindings' = bindings]_vars
    /\ [][(BlockComplete /\ Head(frames).operations = <<>>) =>
            /\ Head(frames).iteration = 0
            /\ pc' = "running" /\ frames' = Tail(frames)
            /\ raised'.exc # "CycleLimitError"
            /\ stack' = stack /\ bindings' = bindings]_vars

\* T { SATURATE { } } with max_saturate_iterations = 0 ended with
\* TERM_CYCLE_LIMIT
C24_Witness ==
    /\ pc = "returned" /\ result.status = "TERM_CYCLE_LIMIT"
    /\ program = <<Phase(NameT, <<Saturate(<<>>)>>)>>
    /\ config.max_saturate_iterations = 0
    /\ result.operations_executed = 1
    /\ result.final_state.stack = <<>>

\* C25: phases begin in declared order: the phase begun is the one after the
\* phases begun so far, phase_counter counts them and current_phase_name names
\* the latest; a phase begins only while execution runs, halted is unset, no
\* terminating exception was raised and the phase before it has run through
\* its operations; the operations of a list are dispatched one after the other
\* from its first; a COMPLETE result reports every phase of the program.
C25_PhaseOrder ==
    /\ [](pc \in {"running", "returned", "escaped"} =>
            /\ phase_counter = phase_idx /\ phase_idx <= Len(program)
            /\ (pc = "running" /\ phase_idx >= 1) =>
                  current_phase_name = program[phase_idx].name)
    /\ [][(pc = "running" /\ phase_counter' # phase_counter) =>
            /\ phase_counter' = phase_counter + 1
            /\ current_phase_name' = program[phase_counter + 1].name
            /\ pc' = "running" /\ ~halted /\ frames = <<>>
            /\ raised.exc \in {"none", "BreakBlock"}
            /\ op_idx = 0 /\ op_idx' = 1
            /\ operation_counter' = operation_counter]_vars
    /\ [][(pc = "running" /\ pc' = "running" /\ phase_counter' = phase_counter
             /\ op_idx' # op_idx) =>
            \/ op_idx' = op_idx + 1 /\ frames = <<>> /\ op_idx <= Len(program[phase_idx].operations)
            \/ op_idx' = 0 /\ frames = <<>> /\ op_idx > Len(program[phase_idx].operations)]_vars
    /\ [][(pc = "running" /\ pc' = "running" /\ Len(frames') = Len(frames) /\ frames # <<>>
             /\ Head(frames').pos # Head(frames).pos) =>
            \/ Head(frames').pos = Head(frames).pos + 1 /\ HasCurOp
            \/ Head(frames').pos = 1 /\ BlockComplete]_vars
    /\ []((pc = "returned" /\ result.status = "COMPLETE") =>
            /\ result.phases_executed = Len(program)
            /\ ~halted)
    /\ [](pc = "returned" => result.phases_executed = phase_counter)

\* both phases of T { PUSH "a" PUSH 7 INVERT INVERT } U { WITNESS } were executed
C25_Witness ==
    /\ pc = "returned" /\ result.status = "COMPLETE"
    /\ program = <<Phase(NameT, <<PushA, Push7, Invert, Invert>>), Phase(NameU, <<Witness>>)>>
    /\ result.phases_executed = 2 /\ current_phase_name = NameU
    /\ result.operations_executed = 5

\* C26: a source text holding a character that no token rule matches (a
\* character the tokenizer passes over) is refused with ParseError: it never
\* yields a program.
C26_UnmatchedCharacter ==
    (source # <<>> /\ Tokenize(source, 1, <<>>, {}).skipped # {}) => pc = "parse_error"

\* T { PUSH "a" @ HALT } was accepted with the tokens of T { PUSH "a" HALT }
\* and executed
C26_Witness ==
    /\ source = Text.stray
    /\ Tokenize(source, 1, <<>>, {}).skipped = {14}
    /\ tokens = Tokenize(Text.clean, 1, <<>>, {}).tokens
    /\ pc = "returned" /\ result.status = "HALTED"
    /\ result.final_state.stack = <<(<<"a">>)>>

\* C27: no step of an execution removes an element from the stack: the depth
\* never decreases and every value occurs in the stack at least as often as
\* before; a dispatched PUSH appends its one element or, on a full stack,
\* leaves the stack as it is, INVERT keeps depth and occurrences, every other
\* step leaves the stack unchanged; so a depth that is not below N is not
\* below N after the step either.
C27_StackGrows ==
    [][pc = "running" =>
          /\ Len(stack') >= Len(stack)
          /\ \A i \in 1..Len(stack) :
                Cardinality({j \in 1..Len(stack') : stack'[j] = stack[i]})
                   >= Cardinality({j \in 1..Len(stack) : stack[j] = stack[i]})
          /\ IF Dispatches("PUSH")
             THEN \/ stack' = Append(stack, Str(CurOp.arguments[1].value))
                  \/ stack' = stack /\ Len(stack) >= config.max_stack_depth
             ELSE IF Dispatches("INVERT")
             THEN Len(stack') = Len(stack)
             ELSE stack' = stack
          /\ \A n \in 0..3 : ~(Len(stack) < n) => ~(Len(stack') < n)]_vars

\* T { SATURATE { PUSH "a" GATE "depth < 2" } HALT }: the condition was false
\* at depth 2 and the execution ended with both elements on the stack
C27_Witness ==
    /\ pc = "returned" /\ result.status = "HALTED"
    /\ program = <<Phase(NameT, <<Saturate(<<PushA, GateDepth>>), Halt>>)>>
    /\ stack = <<(<<"a">>), (<<"a">>)>>
    /\ result.final_state.depth = 2
    /\ result.operations_executed = 6

====
